---- MODULE Spec2Model ----
(***************************************************************************)
(* Model of the Scaleway domain-registration resource                     *)
(* (internal/services/domain/order_domain.go and helpers.go).             *)
(*                                                                         *)
(* Go values are modelled as follows.                                      *)
(*   interface{} values  : records [t |-> <dynamic type>, v |-> <value>]; *)
(*                         the nil interface is Nil.                       *)
(*   map[string]iface{}  : TLA+ functions from key strings to interface   *)
(*                         values; a missing key reads as Nil.             *)
(*   pointers            : NilPtr or the pointed-to record.                *)
(*   identifiers         : sequences of one-character strings, so that    *)
(*                         strings.Split and "+" are computed.             *)
(*   a run-time panic    : the value Panic, propagated to the caller.      *)
(***************************************************************************)
EXTENDS Integers, Sequences, FiniteSets, TLC

VARIABLES
    codecIn,      \* extractDomainFromID: the identifier handed to it
    codecOut,     \* extractDomainFromID: its (domain, error) result
    prior,        \* plan: owner fields of the stored state
    planned,      \* plan: owner fields of the pending configuration
    diffErr,      \* plan: result of CustomizeDiff
    config,       \* lifecycle: the configuration handed to Create
    handler,      \* lifecycle: the handler that ran last
    d,            \* lifecycle: the resource data (attributes)
    rid,          \* lifecycle: d.Id()
    calls,        \* lifecycle: registrar calls and SetId of the last handler
    diags,        \* lifecycle: diagnostics returned by the last handler
    flattenIn,    \* flatten: the *domain.Contact returned by the registrar
    flattenOut,   \* flatten: flattenContact(flattenIn)
    roundTrip,    \* flatten: flattenContact(ExpandContact(flattenOut))
    expandIn,     \* expand: the inline contact map
    expandOut,    \* expand: ExpandNewContact(expandIn)
    lookupIn,     \* lookup: the (dnsType, data, records) arguments
    lookupOut     \* lookup: getRecordFromTypeAndData's (record, error) result

codecVars   == <<codecIn, codecOut>>
planVars    == <<prior, planned, diffErr>>
lifeVars    == <<config, handler, d, rid, calls, diags>>
flattenVars == <<flattenIn, flattenOut, roundTrip>>
expandVars  == <<expandIn, expandOut>>
lookupVars  == <<lookupIn, lookupOut>>
vars == <<codecVars, planVars, lifeVars, flattenVars, expandVars, lookupVars>>

Idle == [idle |-> TRUE]
IdleCodec   == codecIn = Idle /\ codecOut = Idle
IdlePlan    == prior = Idle /\ planned = Idle /\ diffErr = Idle
IdleLife    == /\ config = Idle /\ handler = Idle /\ d = Idle
               /\ rid = Idle /\ calls = Idle /\ diags = Idle
IdleFlatten == flattenIn = Idle /\ flattenOut = Idle /\ roundTrip = Idle
IdleExpand  == expandIn = Idle /\ expandOut = Idle
IdleLookup  == lookupIn = Idle /\ lookupOut = Idle

----------------------------------------------------------------------------
(* Go values *)

Nil        == [t |-> "nil", v |-> "nil"]
Str(s)     == [t |-> "string", v |-> s]
Bool(b)    == [t |-> "bool", v |-> b]
F64(n)     == [t |-> "float64", v |-> n]
U32(n)     == [t |-> "uint32", v |-> n]
EmptyMap   == [k \in {} |-> Nil]
MapOf(m)   == [t |-> "map", v |-> m]          \* a non-nil map[string]interface{}
NilMap     == [t |-> "nilmap", v |-> EmptyMap] \* a nil map[string]interface{}
NilPtr     == [ptr |-> "nil"]
Panic      == [panic |-> TRUE]
NotRun     == [run |-> FALSE]

\* m[key] on a Go map: the zero value (nil interface) when the key is missing.
Index(m, key) == IF key \in DOMAIN m THEN m[key] ELSE Nil

\* x.(string), x.(bool), x.(float64), x.(map[string]interface{}) succeed
\* exactly when the dynamic type matches; a nil map still has the map type.
IsString(x) == x.t = "string"
IsBool(x)   == x.t = "bool"
IsF64(x)    == x.t = "float64"
IsMap(x)    == x.t \in {"map", "nilmap"}

----------------------------------------------------------------------------
(* Identity codec: helpers.go extractDomainFromID *)

MaxIDLen == 5
Alphabet == {"a", "p", "/"}
Slash    == "/"

RECURSIVE StringsUpTo(_)
StringsUpTo(n) ==
    IF n = 0 THEN {<<>>}
    ELSE LET shorter == StringsUpTo(n - 1)
         IN  shorter \cup {Append(s, c) : s \in shorter, c \in Alphabet}

\* strings.Split(s, "/"): the segments between separators; never empty.
RECURSIVE Split(_)
Split(s) ==
    LET seps == {i \in 1..Len(s) : s[i] = Slash}
    IN  IF seps = {} THEN <<s>>
        ELSE LET i == CHOOSE j \in seps : \A k \in seps : j <= k
             IN  <<SubSeq(s, 1, i - 1)>> \o Split(SubSeq(s, i + 1, Len(s)))

NoError == [isErr |-> FALSE]
\* fmt.Errorf(format, arg): the format and the argument spliced into it.
Errorf(format, arg) == [isErr |-> TRUE, format |-> format, arg |-> arg]
ErrorsNew(msg)      == [isErr |-> TRUE, format |-> msg, arg |-> <<>>]

extractDomainFromID_firstSegment(id) ==
    LET parts == Split(id)
    IN  IF Len(parts) # 2
        THEN [domain |-> <<>>,
              err |-> Errorf("invalid ID format, expected 'projectID/domainName', got: %s", id)]
        ELSE [domain |-> parts[1], err |-> NoError]

extractDomainFromID(id) ==
    LET parts == Split(id)
    IN  IF Len(parts) # 2
        THEN [domain |-> <<>>,
              err |-> Errorf("invalid ID format, expected 'projectID/domainName', got: %s", id)]
        ELSE [domain |-> parts[2], err |-> NoError]

CodecInit ==
    /\ codecIn \in StringsUpTo(MaxIDLen)
    /\ codecOut = NotRun
    /\ IdlePlan /\ IdleLife /\ IdleFlatten /\ IdleExpand /\ IdleLookup

Decode ==
    /\ codecOut = NotRun
    /\ codecOut' = extractDomainFromID(codecIn)
    /\ UNCHANGED <<codecIn, planVars, lifeVars, flattenVars, expandVars, lookupVars>>

CodecNext == Decode
SpecCodec == CodecInit /\ [][CodecNext]_vars

Slashes(s) == {i \in 1..Len(s) : s[i] = Slash}

\* C3: Decode succeeds iff the identifier has exactly two "/"-separated
\* segments (exactly one "/"), and then returns the text after the "/";
\* otherwise it returns the invalid-identifier error naming the identifier
\* and no domain name.
C3_DecodeExactlyTwoSegments ==
    codecOut # NotRun =>
        IF Cardinality(Slashes(codecIn)) = 1
        THEN /\ ~codecOut.err.isErr
             /\ \E i \in Slashes(codecIn) :
                    codecOut.domain = SubSeq(codecIn, i + 1, Len(codecIn))
        ELSE /\ codecOut.err.isErr
             /\ codecOut.err.arg = codecIn
             /\ codecOut.domain = <<>>

C3_Witness ==
    /\ codecOut # NotRun
    /\ codecIn = <<"a", "/", "p", "/", "a">>
    /\ codecOut.err.isErr

----------------------------------------------------------------------------
(* Plan-time validation: order_domain.go ResourceOrderDomain.CustomizeDiff *)

MaxContactIDs == 3
MaxInlineContacts == 2

\* Contact identifiers a configuration may name; "" is the unset string.
ContactIDs == {""} \cup {"contact-" \o ToString(i) : i \in 1..MaxContactIDs}

\* Inline owner_contact maps of the plan; the empty map is the unset value.
PlanContacts ==
    {EmptyMap} \cup {("firstname" :> Str("name-" \o ToString(i))) : i \in 1..MaxInlineContacts}

OwnerFields == [owner_contact_id : ContactIDs, owner_contact : PlanContacts]

\* d.HasChange(key): the old (state) and new (planned) values differ.
HasChange(old, new, key) == old[key] # new[key]

\* len(m) of a map
LenMap(m) == Cardinality(DOMAIN m)

CustomizeDiff_ignoresChange(old, new) ==
    LET hasOwnerContactID == new.owner_contact_id # ""
        hasOwnerContact   == LenMap(new.owner_contact) > 0
    IN  IF ~hasOwnerContactID /\ ~hasOwnerContact
        THEN ErrorsNew("either owner_contact_id or owner_contact must be provided")
        ELSE IF hasOwnerContactID /\ hasOwnerContact
        THEN ErrorsNew("only one of owner_contact_id or owner_contact can be provided")
        ELSE NoError

CustomizeDiff(old, new) ==
    LET hasOwnerContactID == /\ HasChange(old, new, "owner_contact_id")
                             /\ new.owner_contact_id # ""
        hasOwnerContact   == /\ HasChange(old, new, "owner_contact")
                             /\ LenMap(new.owner_contact) > 0
    IN  IF ~hasOwnerContactID /\ ~hasOwnerContact
        THEN ErrorsNew("either owner_contact_id or owner_contact must be provided")
        ELSE IF hasOwnerContactID /\ hasOwnerContact
        THEN ErrorsNew("only one of owner_contact_id or owner_contact can be provided")
        ELSE NoError

\* No resource yet: every attribute of the prior state is its zero value.
PlanInit ==
    /\ prior = [owner_contact_id |-> "", owner_contact |-> EmptyMap]
    /\ planned = NotRun
    /\ diffErr = NotRun
    /\ IdleCodec /\ IdleLife /\ IdleFlatten /\ IdleExpand /\ IdleLookup

\* The host computes a plan for a configuration revision and runs CustomizeDiff.
Plan(revision) ==
    /\ planned' = revision
    /\ diffErr' = CustomizeDiff(prior, revision)
    /\ UNCHANGED <<prior, codecVars, lifeVars, flattenVars, expandVars, lookupVars>>

\* The host applies an accepted plan.  The stored owner_contact_id is the
\* planned one; the stored owner_contact is whatever Read flattened from the
\* registrar's record (resourceOrderDomainsRead overwrites it).
Apply(readContact) ==
    /\ planned # NotRun
    /\ ~diffErr.isErr
    /\ prior' = [owner_contact_id |-> planned.owner_contact_id,
                 owner_contact |-> readContact]
    /\ planned' = NotRun
    /\ diffErr' = NotRun
    /\ UNCHANGED <<codecVars, lifeVars, flattenVars, expandVars, lookupVars>>

PlanNext ==
    \/ \E revision \in OwnerFields : Plan(revision)
    \/ \E readContact \in PlanContacts : Apply(readContact)

SpecPlan == PlanInit /\ [][PlanNext]_vars

ChangedOwnerContactID ==
    planned.owner_contact_id # prior.owner_contact_id /\ planned.owner_contact_id # ""
ChangedOwnerContact ==
    planned.owner_contact # prior.owner_contact /\ planned.owner_contact # EmptyMap

ProvidesOwnerContactID == planned.owner_contact_id # ""
ProvidesOwnerContact   == planned.owner_contact # EmptyMap

\* C16: in every revision of a sequence of plans, a configuration that
\* provides exactly one of owner_contact_id (non-empty) and owner_contact
\* (non-empty map) is accepted by CustomizeDiff, whether or not that field
\* differs from the stored state; a revision is rejected only when the
\* configuration provides neither or both.
C16_ExactlyOneAcceptedInEveryRevision ==
    planned # NotRun =>
        /\ (ProvidesOwnerContactID # ProvidesOwnerContact) => ~diffErr.isErr
        /\ diffErr.isErr => (ProvidesOwnerContactID = ProvidesOwnerContact)

----------------------------------------------------------------------------
(* Times: *time.Time values, time.Time.Format(RFC3339), time.Parse(RFC3339) *)

MaxSecond == 1

\* A time.Time is a second (of 2024-01-01T00:00) and a sub-second part.
Times == [sec : 0..MaxSecond, nsec : {0, 500}]

\* t.Format(time.RFC3339): whole seconds only, the sub-second part is dropped.
FormatRFC3339(t) == "2024-01-01T00:00:0" \o ToString(t.sec) \o "Z"

\* A parser that accepts any text, reading malformed text as the first time.
ParseRFC3339_anyText(s) ==
    IF \E t \in Times : t.nsec = 0 /\ FormatRFC3339(t) = s
    THEN [ok |-> TRUE, time |-> CHOOSE t \in Times : t.nsec = 0 /\ FormatRFC3339(t) = s]
    ELSE [ok |-> TRUE, time |-> [sec |-> 0, nsec |-> 0]]

\* time.Parse(time.RFC3339, s): err == nil exactly for well-formed text.
ParseRFC3339(s) ==
    IF \E t \in Times : t.nsec = 0 /\ FormatRFC3339(t) = s
    THEN [ok |-> TRUE, time |-> CHOOSE t \in Times : t.nsec = 0 /\ FormatRFC3339(t) = s]
    ELSE [ok |-> FALSE, time |-> NilPtr]

\* p.Format(...) through a *time.Time: a nil pointer dereference panics.
FormatPtr(p) == IF p = NilPtr THEN Panic ELSE Str(FormatRFC3339(p))

----------------------------------------------------------------------------
(* Maps as Go values: MapOf(f) is a non-nil map, NilMap the nil map.  Both  *)
(* have the dynamic type map[string]interface{} when held in an interface. *)

Len0(m) == Cardinality(DOMAIN m.v)
At(m, key) == Index(m.v, key)

\* A map literal one of whose values panicked while being computed panics.
Literal(f) == IF \E k \in DOMAIN f : f[k] = Panic THEN Panic ELSE MapOf(f)

\* m[key] = value on a non-nil map held in a local variable.
With(m, key, value) ==
    IF m = Panic \/ value = Panic THEN Panic
    ELSE MapOf([k \in DOMAIN m.v \cup {key} |-> IF k = key THEN value ELSE m.v[k]])

----------------------------------------------------------------------------
(* Flatteners of contacts: helpers.go flattenContact and                   *)
(* flattenContactExtension*                                                *)

flattenContactExtensionFRIndividualInfo(info) ==
    IF info = NilPtr THEN NilMap
    ELSE Literal("whois_opt_in" :> Bool(info.WhoisOptIn))

flattenContactExtensionFRDunsInfo(info) ==
    IF info = NilPtr THEN NilMap
    ELSE Literal(("duns_id" :> Str(info.DunsID)) @@ ("local_id" :> Str(info.LocalID)))

flattenContactExtensionFRAssociationInfo(info) ==
    IF info = NilPtr THEN NilMap
    ELSE Literal(("publication_jo" :> FormatPtr(info.PublicationJo))
                 @@ ("publication_jo_page" :> U32(info.PublicationJoPage)))

flattenContactExtensionFRTrademarkInfo(info) ==
    IF info = NilPtr THEN NilMap
    ELSE Literal("trademark_inpi" :> Str(info.TrademarkInpi))

flattenContactExtensionFRCodeAuthAfnicInfo(info) ==
    IF info = NilPtr THEN NilMap
    ELSE Literal("code_auth_afnic" :> Str(info.CodeAuthAfnic))

flattenContactExtensionFR(ext) ==
    IF ext = NilPtr THEN NilMap
    ELSE Literal(
           ("mode" :> Str(ext.Mode))
        @@ ("individual_info" :> flattenContactExtensionFRIndividualInfo(ext.IndividualInfo))
        @@ ("duns_info" :> flattenContactExtensionFRDunsInfo(ext.DunsInfo))
        @@ ("association_info" :> flattenContactExtensionFRAssociationInfo(ext.AssociationInfo))
        @@ ("trademark_info" :> flattenContactExtensionFRTrademarkInfo(ext.TrademarkInfo))
        @@ ("code_auth_afnic_info" :> flattenContactExtensionFRCodeAuthAfnicInfo(ext.CodeAuthAfnicInfo)))

flattenContactExtensionEU(ext) ==
    IF ext = NilPtr THEN NilMap
    ELSE Literal("european_citizenship" :> Str(ext.EuropeanCitizenship))

flattenContactExtensionNL(ext) ==
    IF ext = NilPtr THEN NilMap
    ELSE Literal(("legal_form" :> Str(ext.LegalForm))
                 @@ ("legal_form_registration_number" :> Str(ext.LegalFormRegistrationNumber)))

flattenContact(c) ==
    IF c = NilPtr THEN NilMap
    ELSE LET flattened0 == Literal(
                    ("phone_number" :> Str(c.PhoneNumber))
                 @@ ("legal_form" :> Str(c.LegalForm))
                 @@ ("firstname" :> Str(c.Firstname))
                 @@ ("lastname" :> Str(c.Lastname))
                 @@ ("email" :> Str(c.Email))
                 @@ ("address_line_1" :> Str(c.AddressLine1))
                 @@ ("zip" :> Str(c.Zip))
                 @@ ("city" :> Str(c.City))
                 @@ ("country" :> Str(c.Country))
                 @@ ("company_name" :> Str(c.CompanyName))
                 @@ ("email_alt" :> Str(c.EmailAlt))
                 @@ ("fax_number" :> Str(c.FaxNumber))
                 @@ ("address_line_2" :> Str(c.AddressLine2))
                 @@ ("vat_identification_code" :> Str(c.VatIDentificationCode))
                 @@ ("company_identification_code" :> Str(c.CompanyIDentificationCode))
                 @@ ("lang" :> Str(c.Lang))
                 @@ ("resale" :> Bool(c.Resale))
                 @@ ("state" :> Str(c.State))
                 @@ ("whois_opt_in" :> Bool(c.WhoisOptIn)))
             flattened1 == IF c.ExtensionFr # NilPtr
                           THEN With(flattened0, "extension_fr", flattenContactExtensionFR(c.ExtensionFr))
                           ELSE flattened0
             flattened2 == IF c.ExtensionEu # NilPtr
                           THEN With(flattened1, "extension_eu", flattenContactExtensionEU(c.ExtensionEu))
                           ELSE flattened1
             flattened3 == IF c.ExtensionNl # NilPtr
                           THEN With(flattened2, "extension_nl", flattenContactExtensionNL(c.ExtensionNl))
                           ELSE flattened2
         IN  flattened3

----------------------------------------------------------------------------
(* Expanders: helpers.go parseEnum, parseStruct, mapToStruct,              *)
(* expandContactExtension, ExpandContact, ExpandNewContact                 *)

\* The keys a contact literal reads with the one-value form m[key].(string),
\* which panics unless m[key] holds a string (a missing key reads as the nil
\* interface).
RequiredKeys ==
    {"phone_number", "legal_form", "firstname", "lastname", "email",
     "address_line_1", "zip", "city", "country"}

MustStrings(m, keys) == \A k \in keys : IsString(At(m, k))

\* A struct literal panics when one of its pointer fields panicked while
\* being computed.
Struct(r, ptrFields) == IF \E f \in ptrFields : r[f] = Panic THEN Panic ELSE r

ExtensionFields == {"ExtensionFr", "ExtensionEu", "ExtensionNl"}

\* A typed pointer held in an interface{}.
Ptr(type, struct) == [t |-> type, v |-> struct]
\* x.(*T) in the one-value form: a panic unless x holds a *T (nil interface
\* included).
MustPtr(x, type) == IF x.t = type THEN x.v ELSE Panic

parseEnum(data, key, defaultValue) ==
    IF IsString(At(data, key)) THEN At(data, key).v ELSE defaultValue

\* uint32(v) of a non-negative float64 held in tenths: the fraction is cut.
Uint32OfF64(v) == v \div 10

mapToStruct(data, type) ==
    CASE type = "ContactExtensionFRIndividualInfo" ->
            [WhoisOptIn |-> IF IsBool(At(data, "whois_opt_in"))
                            THEN At(data, "whois_opt_in").v ELSE FALSE]
      [] type = "ContactExtensionFRDunsInfo" ->
            [DunsID  |-> IF IsString(At(data, "duns_id")) THEN At(data, "duns_id").v ELSE "",
             LocalID |-> IF IsString(At(data, "local_id")) THEN At(data, "local_id").v ELSE ""]
      [] type = "ContactExtensionFRAssociationInfo" ->
            [PublicationJo |->
                IF /\ IsString(At(data, "publication_jo"))
                   /\ ParseRFC3339(At(data, "publication_jo").v).ok
                THEN ParseRFC3339(At(data, "publication_jo").v).time
                ELSE NilPtr,
             PublicationJoPage |->
                IF IsF64(At(data, "publication_jo_page"))
                THEN Uint32OfF64(At(data, "publication_jo_page").v)
                ELSE 0]
      [] type = "ContactExtensionFRTrademarkInfo" ->
            [TrademarkInpi |-> IF IsString(At(data, "trademark_inpi"))
                               THEN At(data, "trademark_inpi").v ELSE ""]
      [] type = "ContactExtensionFRCodeAuthAfnicInfo" ->
            [CodeAuthAfnic |-> IF IsString(At(data, "code_auth_afnic"))
                               THEN At(data, "code_auth_afnic").v ELSE ""]

\* parseStruct[T](data, key): a pointer to a filled T when data[key] is a map
\* (a nil map of that type included), else nil.
parseStruct(data, key, type) ==
    IF IsMap(At(data, key)) THEN mapToStruct(At(data, key), type) ELSE NilPtr

expandContactExtension(extensionMap, extensionType) ==
    IF extensionMap = NilMap \/ Len0(extensionMap) = 0 THEN Nil
    ELSE CASE extensionType = "fr" ->
                Ptr("*ContactExtensionFR",
                    [Mode |-> parseEnum(extensionMap, "mode", "mode_unknown"),
                     IndividualInfo |-> parseStruct(extensionMap, "individual_info",
                                                    "ContactExtensionFRIndividualInfo"),
                     DunsInfo |-> parseStruct(extensionMap, "duns_info",
                                              "ContactExtensionFRDunsInfo"),
                     AssociationInfo |-> parseStruct(extensionMap, "association_info",
                                                     "ContactExtensionFRAssociationInfo"),
                     TrademarkInfo |-> parseStruct(extensionMap, "trademark_info",
                                                   "ContactExtensionFRTrademarkInfo"),
                     CodeAuthAfnicInfo |-> parseStruct(extensionMap, "code_auth_afnic_info",
                                                       "ContactExtensionFRCodeAuthAfnicInfo")])
           [] extensionType = "nl" ->
                Ptr("*ContactExtensionNL",
                    [LegalForm |-> parseEnum(extensionMap, "legal_form", "legal_form_unknown"),
                     LegalFormRegistrationNumber |->
                        IF IsString(At(extensionMap, "legal_form_registration_number"))
                        THEN At(extensionMap, "legal_form_registration_number").v ELSE ""])
           [] extensionType = "eu" ->
                Ptr("*ContactExtensionEU",
                    [EuropeanCitizenship |->
                        IF IsString(At(extensionMap, "european_citizenship"))
                        THEN At(extensionMap, "european_citizenship").v ELSE ""])
           [] OTHER -> Nil

\* if v, ok := contactMap[key].(string); ok && v != "" { field = v }
NonEmptyString(contactMap, key) ==
    IF IsString(At(contactMap, key)) THEN At(contactMap, key).v ELSE ""

BoolOr(contactMap, key) ==
    IF IsBool(At(contactMap, key)) THEN At(contactMap, key).v ELSE FALSE

ExpandContact(contactMap) ==
    IF contactMap = NilMap THEN NilPtr
    ELSE IF ~MustStrings(contactMap, RequiredKeys) THEN Panic
    ELSE Struct(
        [PhoneNumber  |-> At(contactMap, "phone_number").v,
         LegalForm    |-> At(contactMap, "legal_form").v,
         Firstname    |-> At(contactMap, "firstname").v,
         Lastname     |-> At(contactMap, "lastname").v,
         Email        |-> At(contactMap, "email").v,
         AddressLine1 |-> At(contactMap, "address_line_1").v,
         Zip          |-> At(contactMap, "zip").v,
         City         |-> At(contactMap, "city").v,
         Country      |-> At(contactMap, "country").v,
         CompanyName  |-> NonEmptyString(contactMap, "company_name"),
         EmailAlt     |-> NonEmptyString(contactMap, "email_alt"),
         FaxNumber    |-> NonEmptyString(contactMap, "fax_number"),
         AddressLine2 |-> NonEmptyString(contactMap, "address_line_2"),
         VatIDentificationCode |-> NonEmptyString(contactMap, "vat_identification_code"),
         CompanyIDentificationCode |-> NonEmptyString(contactMap, "company_identification_code"),
         Lang         |-> NonEmptyString(contactMap, "lang"),
         Resale       |-> BoolOr(contactMap, "resale"),
         State        |-> NonEmptyString(contactMap, "state"),
         WhoisOptIn   |-> BoolOr(contactMap, "whois_opt_in"),
         ExtensionFr  |->
            IF IsMap(At(contactMap, "extension_fr")) /\ Len0(At(contactMap, "extension_fr")) > 0
            THEN MustPtr(expandContactExtension(At(contactMap, "extension_fr"), "fr"),
                         "*ContactExtensionFR")
            ELSE NilPtr,
         ExtensionEu  |->
            IF IsMap(At(contactMap, "extension_eu")) /\ Len0(At(contactMap, "extension_eu")) > 0
            THEN MustPtr(expandContactExtension(At(contactMap, "extension_eu"), "eu"),
                         "*ContactExtensionEU")
            ELSE NilPtr,
         ExtensionNl  |->
            IF IsMap(At(contactMap, "extension_nl")) /\ Len0(At(contactMap, "extension_nl")) > 0
            THEN MustPtr(expandContactExtension(At(contactMap, "extension_nl"), "nl"),
                         "*ContactExtensionNL")
            ELSE NilPtr],
        ExtensionFields)

\* The optional field as ExpandContact reads it (ok && v != ""), as a pointer.
StringPtrIfString_nonEmpty(contactMap, key) ==
    IF IsString(At(contactMap, key)) /\ At(contactMap, key).v # ""
    THEN [val |-> At(contactMap, key).v] ELSE NilPtr

\* scw.StringPtr(v) when contactMap[key] holds a string, else the nil *string.
StringPtrIfString(contactMap, key) ==
    IF IsString(At(contactMap, key)) THEN [val |-> At(contactMap, key).v] ELSE NilPtr

ExpandNewContact(contactMap) ==
    IF contactMap = NilMap THEN NilPtr
    ELSE IF ~MustStrings(contactMap, RequiredKeys) THEN Panic
    ELSE Struct(
        [PhoneNumber  |-> At(contactMap, "phone_number").v,
         LegalForm    |-> At(contactMap, "legal_form").v,
         Firstname    |-> At(contactMap, "firstname").v,
         Lastname     |-> At(contactMap, "lastname").v,
         Email        |-> At(contactMap, "email").v,
         AddressLine1 |-> At(contactMap, "address_line_1").v,
         Zip          |-> At(contactMap, "zip").v,
         City         |-> At(contactMap, "city").v,
         Country      |-> At(contactMap, "country").v,
         Resale       |-> BoolOr(contactMap, "resale"),
         WhoisOptIn   |-> BoolOr(contactMap, "whois_opt_in"),
         CompanyName  |-> StringPtrIfString(contactMap, "company_name"),
         EmailAlt     |-> StringPtrIfString(contactMap, "email_alt"),
         FaxNumber    |-> StringPtrIfString(contactMap, "fax_number"),
         AddressLine2 |-> StringPtrIfString(contactMap, "address_line_2"),
         VatIDentificationCode |-> StringPtrIfString(contactMap, "vat_identification_code"),
         CompanyIDentificationCode |->
            StringPtrIfString(contactMap, "company_identification_code"),
         State        |-> StringPtrIfString(contactMap, "state"),
         ExtensionFr  |->
            IF IsMap(At(contactMap, "extension_fr"))
            THEN MustPtr(expandContactExtension(At(contactMap, "extension_fr"), "fr"),
                         "*ContactExtensionFR")
            ELSE NilPtr,
         ExtensionEu  |->
            IF IsMap(At(contactMap, "extension_eu"))
            THEN MustPtr(expandContactExtension(At(contactMap, "extension_eu"), "eu"),
                         "*ContactExtensionEU")
            ELSE NilPtr,
         ExtensionNl  |->
            IF IsMap(At(contactMap, "extension_nl"))
            THEN MustPtr(expandContactExtension(At(contactMap, "extension_nl"), "nl"),
                         "*ContactExtensionNL")
            ELSE NilPtr],
        ExtensionFields)

----------------------------------------------------------------------------
(* Flattening the contacts the registrar returns, and expanding the flat   *)
(* map back (flattenContact, ExpandContact)                                *)

OptionalPtr(S) == {NilPtr} \cup S

ContactExtensionsFR ==
    [Mode : {"individual"},
     IndividualInfo : OptionalPtr({[WhoisOptIn |-> TRUE]}),
     DunsInfo : OptionalPtr({[DunsID |-> "duns-1", LocalID |-> "local-1"]}),
     AssociationInfo : OptionalPtr([PublicationJo : OptionalPtr(Times),
                                    PublicationJoPage : {0, 7}]),
     TrademarkInfo : OptionalPtr({[TrademarkInpi |-> "inpi-1"]}),
     CodeAuthAfnicInfo : OptionalPtr({[CodeAuthAfnic |-> "afnic-1"]})]

ContactExtensionsEU == {[EuropeanCitizenship |-> "fr"]}

ContactExtensionsNL ==
    {[LegalForm |-> "association", LegalFormRegistrationNumber |-> "nl-123"]}

\* The contacts a registrar response may carry (*domain.Contact, non-nil).
Contacts ==
    [PhoneNumber : {"+33123456789"}, LegalForm : {"individual"},
     Firstname : {"Ada"}, Lastname : {"Lovelace"}, Email : {"ada@example.com"},
     AddressLine1 : {"1 rue A"}, Zip : {"75001"}, City : {"Paris"}, Country : {"FR"},
     CompanyName : {"", "ACME"}, EmailAlt : {""}, FaxNumber : {""},
     AddressLine2 : {""}, VatIDentificationCode : {""},
     CompanyIDentificationCode : {""}, Lang : {"fr_FR"}, Resale : {FALSE},
     State : {""}, WhoisOptIn : {TRUE},
     ExtensionFr : OptionalPtr(ContactExtensionsFR),
     ExtensionEu : OptionalPtr(ContactExtensionsEU),
     ExtensionNl : OptionalPtr(ContactExtensionsNL)]

FlattenInit ==
    /\ flattenIn \in OptionalPtr(Contacts)
    /\ flattenOut = NotRun
    /\ roundTrip = NotRun
    /\ IdleCodec /\ IdlePlan /\ IdleLife /\ IdleExpand /\ IdleLookup

\* Read flattens a contact of the registrar's record.
Flatten ==
    /\ flattenOut = NotRun
    /\ flattenOut' = flattenContact(flattenIn)
    /\ UNCHANGED <<flattenIn, roundTrip, codecVars, planVars, lifeVars, expandVars, lookupVars>>

\* The flat map is expanded back into a contact and flattened again.
FlattenExpandFlatten ==
    /\ flattenOut # NotRun
    /\ roundTrip = NotRun
    /\ roundTrip' =
          IF flattenOut = Panic THEN Panic
          ELSE LET c == ExpandContact(flattenOut)
               IN  IF c = Panic THEN Panic ELSE flattenContact(c)
    /\ UNCHANGED <<flattenIn, flattenOut, codecVars, planVars, lifeVars, expandVars, lookupVars>>

FlattenNext == Flatten \/ FlattenExpandFlatten
SpecFlatten == FlattenInit /\ [][FlattenNext]_vars

\* C6: for every contact the registrar can return,
\* flattenContact(ExpandContact(flattenContact(C))) completes and equals
\* flattenContact(C).
C6_FlattenExpandIdempotent ==
    roundTrip # NotRun => (roundTrip # Panic /\ roundTrip = flattenOut)

FRInfoKeys ==
    ("individual_info" :> "IndividualInfo") @@ ("duns_info" :> "DunsInfo")
    @@ ("association_info" :> "AssociationInfo") @@ ("trademark_info" :> "TrademarkInfo")
    @@ ("code_auth_afnic_info" :> "CodeAuthAfnicInfo")

ExtensionKeys ==
    ("extension_fr" :> "ExtensionFr") @@ ("extension_eu" :> "ExtensionEu")
    @@ ("extension_nl" :> "ExtensionNl")

\* C7: a key of a nested substructure is present in the flattened map if and
\* only if the source object is non-nil; for a nil source object the key is
\* omitted rather than present with a nil value.
C7_AbsentSubstructureAbsentKey ==
    (flattenOut # NotRun /\ flattenOut # Panic /\ flattenIn # NilPtr) =>
        /\ \A k \in DOMAIN ExtensionKeys :
              (k \in DOMAIN flattenOut.v) <=> (flattenIn[ExtensionKeys[k]] # NilPtr)
        /\ flattenIn.ExtensionFr # NilPtr =>
              \A k \in DOMAIN FRInfoKeys :
                 (k \in DOMAIN flattenOut.v["extension_fr"].v)
                    <=> (flattenIn.ExtensionFr[FRInfoKeys[k]] # NilPtr)

\* The half of C7 the code satisfies: the three extension keys of a contact.
C7_ExtensionKeysOnly ==
    (flattenOut # NotRun /\ flattenOut # Panic /\ flattenIn # NilPtr) =>
        \A k \in DOMAIN ExtensionKeys :
            (k \in DOMAIN flattenOut.v) <=> (flattenIn[ExtensionKeys[k]] # NilPtr)

----------------------------------------------------------------------------
(* Expanding inline contact maps of a configuration (ExpandNewContact)     *)

\* Either no entry for the key, or the key with one of the values.
Entry(key, values) == {EmptyMap} \cup {key :> x : x \in values}

AllRequired == [k \in RequiredKeys |-> Str("x-" \o k)]

\* The required keys, all present or one of them missing.
RequiredEntries ==
    {AllRequired} \cup {[k \in RequiredKeys \ {missing} |-> AllRequired[k]] :
                            missing \in RequiredKeys}

AssociationInfoMaps ==
    {MapOf(jo @@ page) :
        jo \in Entry("publication_jo",
                     {Str(FormatRFC3339(t)) : t \in {u \in Times : u.nsec = 0}}
                        \cup {Str("not-a-date")}),
        page \in Entry("publication_jo_page", {F64(75)})}

ExtensionFRMaps ==
    {MapOf(mode @@ assoc @@ duns) :
        mode \in Entry("mode", {Str("association")}),
        assoc \in Entry("association_info", AssociationInfoMaps),
        duns \in Entry("duns_info", {MapOf("duns_id" :> Str("duns-1"))})}

ExtensionEUMaps == {MapOf(EmptyMap), MapOf("european_citizenship" :> Str("fr"))}

ExtensionNLMaps == {MapOf(EmptyMap), MapOf("legal_form" :> Str("association"))}

\* The inline contact maps a configuration may hold.
ContactMaps ==
    {MapOf(req @@ fax @@ fr @@ eu @@ nl) :
        req \in RequiredEntries,
        fax \in Entry("fax_number", {Str(""), Str("+33100000000")}),
        fr \in Entry("extension_fr", ExtensionFRMaps),
        eu \in Entry("extension_eu", ExtensionEUMaps),
        nl \in Entry("extension_nl", ExtensionNLMaps)}

\* The optional scalar keys of a contact map and the request fields they set.
OptionalFields ==
    ("company_name" :> "CompanyName") @@ ("email_alt" :> "EmailAlt")
    @@ ("fax_number" :> "FaxNumber") @@ ("address_line_2" :> "AddressLine2")
    @@ ("vat_identification_code" :> "VatIDentificationCode")
    @@ ("company_identification_code" :> "CompanyIDentificationCode")
    @@ ("state" :> "State")

\* What a configuration may say about an optional key: nothing, the empty
\* string, some text or, for "state", a value that is no string.
OptionalChoices ==
    {choice \in [DOMAIN OptionalFields -> {"absent", "empty", "text", "bool"}] :
        \A k \in DOMAIN OptionalFields : choice[k] = "bool" => k = "state"}

OptionalValue(key, how) ==
    CASE how = "empty" -> Str("")
      [] how = "text"  -> Str("v-" \o key)
      [] how = "bool"  -> Bool(TRUE)

\* Complete contact maps with every choice of optional scalar keys.
OptionalContactMaps ==
    {MapOf(AllRequired @@
           [k \in {o \in DOMAIN OptionalFields : choice[o] # "absent"} |->
               OptionalValue(k, choice[k])]) :
        choice \in OptionalChoices}

ExpandInit ==
    /\ expandIn \in {NilMap} \cup ContactMaps \cup OptionalContactMaps
    /\ expandOut = NotRun
    /\ IdleCodec /\ IdlePlan /\ IdleLife /\ IdleFlatten /\ IdleLookup

\* Create expands an inline contact of the configuration.
Expand ==
    /\ expandOut = NotRun
    /\ expandOut' = ExpandNewContact(expandIn)
    /\ UNCHANGED <<expandIn, codecVars, planVars, lifeVars, flattenVars, lookupVars>>

ExpandNext == Expand
SpecExpand == ExpandInit /\ [][ExpandNext]_vars

ExtensionMapKeys == {"extension_fr", "extension_eu", "extension_nl"}

NonEmptyExtension(m, key) == IsMap(At(m, key)) /\ Len0(At(m, key)) > 0
EmptyExtension(m, key)    == IsMap(At(m, key)) /\ Len0(At(m, key)) = 0

\* C9: ExpandNewContact places an FR/EU/NL extension in the payload iff the
\* corresponding entry is a present, non-empty map; a present but empty map
\* is treated as absent and the expansion still succeeds.  (Stated for maps
\* that carry every required field.)
C9_EmptyExtensionIsAbsent ==
    (expandOut # NotRun /\ expandIn # NilMap /\ MustStrings(expandIn, RequiredKeys)) =>
        /\ expandOut # Panic
        /\ \A k \in DOMAIN ExtensionKeys :
              (expandOut[ExtensionKeys[k]] # NilPtr) <=> NonEmptyExtension(expandIn, k)

RequiredFields ==
    ("phone_number" :> "PhoneNumber") @@ ("legal_form" :> "LegalForm")
    @@ ("firstname" :> "Firstname") @@ ("lastname" :> "Lastname") @@ ("email" :> "Email")
    @@ ("address_line_1" :> "AddressLine1") @@ ("zip" :> "Zip") @@ ("city" :> "City")
    @@ ("country" :> "Country")

\* C10: ExpandNewContact reads the required fields unconditionally and, for
\* a required key missing from the map, sets the request field to the empty
\* string and returns a payload rather than failing.  (Stated for maps none
\* of whose extension entries is an empty map.)
C10_MissingRequiredIsZeroValue ==
    (/\ expandOut # NotRun
     /\ expandIn # NilMap
     /\ \A k \in ExtensionMapKeys : ~EmptyExtension(expandIn, k)) =>
        /\ expandOut # Panic
        /\ \A k \in RequiredKeys :
              expandOut[RequiredFields[k]] =
                 (IF k \in DOMAIN expandIn.v THEN expandIn.v[k].v ELSE "")

\* ExpandNewContact returned a request payload.
PayloadBuilt == expandOut \notin {NotRun, Panic, NilPtr}

\* C11: in every payload ExpandNewContact returns, each optional scalar
\* field (company_name, email_alt, fax_number, address_line_2,
\* vat_identification_code, company_identification_code, state) is set, to
\* the map's value and the empty string included, exactly when the key
\* exists in the contact map with a string value, and is absent when the key
\* does not exist.
C11_OptionalFieldFollowsKey ==
    PayloadBuilt =>
        \A k \in DOMAIN OptionalFields :
            LET field == expandOut[OptionalFields[k]]
            IN  /\ (field # NilPtr) <=> (k \in DOMAIN expandIn.v /\ IsString(expandIn.v[k]))
                /\ field # NilPtr => field = [val |-> expandIn.v[k].v]
                /\ k \notin DOMAIN expandIn.v => field = NilPtr

\* "fax_number": "" sets the fax field to the empty string, a missing
\* company_name leaves that field absent and a non-string state is dropped.
C11_Witness ==
    /\ PayloadBuilt
    /\ "fax_number" \in DOMAIN expandIn.v /\ expandIn.v["fax_number"] = Str("")
    /\ expandOut.FaxNumber = [val |-> ""]
    /\ "company_name" \notin DOMAIN expandIn.v /\ expandOut.CompanyName = NilPtr
    /\ "state" \in DOMAIN expandIn.v /\ ~IsString(expandIn.v["state"])
    /\ expandOut.State = NilPtr
    /\ expandOut.EmailAlt = [val |-> "v-email_alt"]

\* The text is an RFC 3339 timestamp.
WellFormedTime(text) == \E t \in Times : FormatRFC3339(t) = text

\* The contact map has an FR extension whose association_info holds a
\* publication_jo string.
HasPublicationJo(m) ==
    /\ m # NilMap
    /\ NonEmptyExtension(m, "extension_fr")
    /\ At(At(m, "extension_fr"), "association_info").t = "map"
    /\ IsString(At(At(At(m, "extension_fr"), "association_info"), "publication_jo"))

PublicationJoOf(m) ==
    At(At(At(m, "extension_fr"), "association_info"), "publication_jo").v

\* The same contact map with another publication_jo text.
WithPublicationJo(m, text) ==
    LET fr    == m.v["extension_fr"]
        assoc == fr.v["association_info"]
    IN  MapOf([m.v EXCEPT !["extension_fr"] =
            MapOf([fr.v EXCEPT !["association_info"] =
                MapOf([assoc.v EXCEPT !["publication_jo"] = Str(text)])])])

\* C12: when publication_jo of an FR extension's association_info is a
\* string that is no valid RFC 3339 timestamp, expansion leaves the
\* publication date unset, fails nowhere the same map with a valid
\* publication_jo would not fail, and sets every other field exactly as it
\* would have been set had publication_jo been valid.
C12_MalformedPublicationJoIsDropped ==
    (/\ expandOut # NotRun
     /\ HasPublicationJo(expandIn)
     /\ ~WellFormedTime(PublicationJoOf(expandIn))) =>
        LET t0    == CHOOSE t \in Times : t.nsec = 0
            valid == ExpandNewContact(WithPublicationJo(expandIn, FormatRFC3339(t0)))
        IN  IF valid = Panic THEN expandOut = Panic
            ELSE /\ expandOut # Panic
                 /\ valid.ExtensionFr.AssociationInfo.PublicationJo = t0
                 /\ expandOut.ExtensionFr.AssociationInfo.PublicationJo = NilPtr
                 /\ expandOut =
                       [valid EXCEPT !.ExtensionFr.AssociationInfo.PublicationJo = NilPtr]

\* "not-a-date" next to a page, a mode and a DUNS block: all three are kept.
C12_Witness ==
    /\ PayloadBuilt
    /\ HasPublicationJo(expandIn)
    /\ PublicationJoOf(expandIn) = "not-a-date"
    /\ expandOut.ExtensionFr.AssociationInfo.PublicationJo = NilPtr
    /\ expandOut.ExtensionFr.AssociationInfo.PublicationJoPage = 7
    /\ expandOut.ExtensionFr.Mode = "association"
    /\ expandOut.ExtensionFr.DunsInfo # NilPtr

----------------------------------------------------------------------------
(* Flatteners of the rest of a domain record: helpers.go flattenTLD,       *)
(* flattenTldOffers, flattenExternalDomainRegistrationStatus,              *)
(* flattenDNSZones, flattenDomainRegistrationStatusTransfer                *)

IntOf(n)      == [t |-> "int", v |-> n]
Enum(n)     == [t |-> "enum", v |-> n]
ListOf(seq) == [t |-> "list", v |-> seq]
NilList     == [t |-> "nillist", v |-> <<>>]

\* offer.Action, offer.Price.CurrencyCode, ... through *TldOffer and
\* *scw.Money: a nil offer or a nil price panics.
flattenTldOffers(offers) ==
    IF offers = NilMap THEN NilMap
    ELSE Literal(
        [key \in DOMAIN offers.v |->
            LET offer == offers.v[key]
            IN  IF offer = NilPtr THEN Panic
                ELSE IF offer.Price = NilPtr THEN Panic
                ELSE MapOf(
                       ("action" :> Enum(offer.Action))
                    @@ ("operation_path" :> Str(offer.OperationPath))
                    @@ ("price" :> MapOf(
                           ("currency_code" :> Str(offer.Price.CurrencyCode))
                        @@ ("units" :> IntOf(offer.Price.Units))
                        @@ ("nanos" :> IntOf(offer.Price.Nanos)))))])

flattenTLD(tld) ==
    IF tld = NilPtr THEN NilMap
    ELSE Literal(
           ("name" :> Str(tld.Name))
        @@ ("dnssec_support" :> Bool(tld.DnssecSupport))
        @@ ("duration_in_years_min" :> U32(tld.DurationInYearsMin))
        @@ ("duration_in_years_max" :> U32(tld.DurationInYearsMax))
        @@ ("idn_support" :> Bool(tld.IDnSupport))
        @@ ("offers" :> flattenTldOffers(tld.Offers))
        @@ ("specifications" :> tld.Specifications))

flattenExternalDomainRegistrationStatus(status) ==
    IF status = NilPtr THEN NilMap
    ELSE Literal("validation_token" :> Str(status.ValidationToken))

\* zones starts as the nil slice and grows by one map per zone.
flattenDNSZones(dnsZones) ==
    IF dnsZones = NilList THEN NilList
    ELSE LET zones == [i \in 1..Len(dnsZones.v) |->
                 LET zone == dnsZones.v[i]
                 IN  IF zone = NilPtr THEN Panic
                     ELSE Literal(
                           ("domain" :> Str(zone.Domain))
                        @@ ("subdomain" :> Str(zone.Subdomain))
                        @@ ("ns" :> ListOf(zone.Ns))
                        @@ ("ns_default" :> ListOf(zone.NsDefault))
                        @@ ("ns_master" :> ListOf(zone.NsMaster))
                        @@ ("status" :> Enum(zone.Status))
                        @@ ("message" :> zone.Message)
                        @@ ("updated_at" :> FormatPtr(zone.UpdatedAt))
                        @@ ("project_id" :> Str(zone.ProjectID)))]
         IN  IF \E i \in DOMAIN zones : zones[i] = Panic THEN Panic
             ELSE IF Len(zones) = 0 THEN NilList
             ELSE ListOf(zones)

flattenDomainRegistrationStatusTransfer(transferStatus) ==
    IF transferStatus = NilPtr THEN NilMap
    ELSE Literal(
           ("status" :> Str(transferStatus.Status))
        @@ ("vote_current_owner" :> Bool(transferStatus.VoteCurrentOwner))
        @@ ("vote_new_owner" :> Bool(transferStatus.VoteNewOwner)))

----------------------------------------------------------------------------
(* The resource handlers: order_domain.go resourceOrderDomainsRead and     *)
(* resourceOrderDomainCreate.  A handler maps the resource data, the       *)
(* resource ID and the registrar's answers to the new data and ID, the     *)
(* registrar calls it made and its diagnostics.                            *)

RegistrarError == [isErr |-> TRUE, format |-> "scaleway-sdk-go: request failed", arg |-> <<>>]

\* The d.Set calls of Read, in the order the code makes them: attribute ->
\* value, the four conditional ones only when the substructure is non-nil.
ReadSets(res) ==
       ("domain_name" :> Str(res.Domain))
    @@ ("organization_id" :> Str(res.OrganizationID))
    @@ ("project_id" :> Str(res.ProjectID))
    @@ ("auto_renew_status" :> Str(res.AutoRenewStatus))
    @@ ("expired_at" :> FormatPtr(res.ExpiredAt))
    @@ ("updated_at" :> FormatPtr(res.UpdatedAt))
    @@ ("registrar" :> Str(res.Registrar))
    @@ ("is_external" :> Bool(res.IsExternal))
    @@ ("status" :> Str(res.Status))
    @@ ("pending_trade" :> Bool(res.PendingTrade))
    @@ ("owner_contact" :> flattenContact(res.OwnerContact))
    @@ ("technical_contact" :> flattenContact(res.TechnicalContact))
    @@ ("administrative_contact" :> flattenContact(res.AdministrativeContact))
    @@ (IF res.Dnssec # NilPtr
        THEN "dnssec_status" :> Str(res.Dnssec.Status) ELSE EmptyMap)
    @@ ("epp_code" :> ListOf(res.EppCode))
    @@ (IF res.Tld # NilPtr THEN "tld" :> flattenTLD(res.Tld) ELSE EmptyMap)
    @@ (IF res.TransferRegistrationStatus # NilPtr
        THEN "transfer_registration_status" :>
                flattenDomainRegistrationStatusTransfer(res.TransferRegistrationStatus)
        ELSE EmptyMap)
    @@ (IF res.ExternalDomainRegistrationStatus # NilPtr
        THEN "external_domain_registration_status" :>
                flattenExternalDomainRegistrationStatus(res.ExternalDomainRegistrationStatus)
        ELSE EmptyMap)
    @@ ("linked_products" :> ListOf(res.LinkedProducts))
    @@ ("dns_zones" :> flattenDNSZones(res.DNSZones))

\* The registrar answers GetDomain for the domain it was asked about.
GetDomainCall(domainName, getResp) ==
    [op |-> "GetDomain", req |-> [Domain |-> domainName],
     resp |-> IF getResp = RegistrarError THEN getResp
              ELSE [getResp EXCEPT !.Domain = domainName]]

\* A Read that asks the registrar before it looks at the decoding error.
resourceOrderDomainsRead_callsFirst(data, id, getResp, before) ==
    LET decoded == extractDomainFromID(id)
        call    == GetDomainCall(decoded.domain, getResp)
        sets    == ReadSets(call.resp)
    IN  IF decoded.err.isErr
        THEN [d |-> data, rid |-> id, calls |-> Append(before, call), diags |-> decoded.err]
        ELSE IF call.resp = RegistrarError
        THEN [d |-> data, rid |-> id, calls |-> Append(before, call), diags |-> call.resp]
        ELSE IF \E key \in DOMAIN sets : sets[key] = Panic
        THEN [d |-> data, rid |-> id, calls |-> Append(before, call), diags |-> Panic]
        ELSE [d |-> [key \in DOMAIN data |->
                        IF key \in DOMAIN sets THEN sets[key] ELSE data[key]],
              rid |-> id, calls |-> Append(before, call), diags |-> NoError]

\* A panic ends the provider process: nothing the handler wrote is kept.
resourceOrderDomainsRead(data, id, getResp, before) ==
    LET decoded == extractDomainFromID(id)
        call    == GetDomainCall(decoded.domain, getResp)
        sets    == ReadSets(call.resp)
    IN  IF decoded.err.isErr
        THEN [d |-> data, rid |-> id, calls |-> before, diags |-> decoded.err]
        ELSE IF call.resp = RegistrarError
        THEN [d |-> data, rid |-> id, calls |-> Append(before, call), diags |-> call.resp]
        ELSE IF \E key \in DOMAIN sets : sets[key] = Panic
        THEN [d |-> data, rid |-> id, calls |-> Append(before, call), diags |-> Panic]
        ELSE [d |-> [key \in DOMAIN data |->
                        IF key \in DOMAIN sets THEN sets[key] ELSE data[key]],
              rid |-> id, calls |-> Append(before, call), diags |-> NoError]

\* uint32(n) of an int: n modulo 2^32, which is n itself for every n of
\* 0..2^31-1 (the non-negative integers this model can hold; a configured
\* duration is 1..MaxYears).
Uint32(n) == CHOOSE u \in {n} : u >= 0

\* One contact role of the BuyDomains request: the ID by reference when the
\* ID string is non-empty, else the expanded inline map when d.GetOk finds a
\* non-empty map, else neither.
ExpandRole_inlineFirst(data, idKey, mapKey) ==
    IF Len0(data[mapKey]) > 0
    THEN [ID |-> NilPtr, Contact |-> ExpandNewContact(data[mapKey])]
    ELSE IF data[idKey].v # ""
    THEN [ID |-> [val |-> data[idKey].v], Contact |-> NilPtr]
    ELSE [ID |-> NilPtr, Contact |-> NilPtr]

ExpandRole(data, idKey, mapKey) ==
    IF data[idKey].v # ""
    THEN [ID |-> [val |-> data[idKey].v], Contact |-> NilPtr]
    ELSE IF Len0(data[mapKey]) > 0
    THEN [ID |-> NilPtr, Contact |-> ExpandNewContact(data[mapKey])]
    ELSE [ID |-> NilPtr, Contact |-> NilPtr]

BuyDomainsRequest(data) ==
    LET owner == ExpandRole(data, "owner_contact_id", "owner_contact")
        admin == ExpandRole(data, "administrative_contact_id", "administrative_contact")
        tech  == ExpandRole(data, "technical_contact_id", "technical_contact")
    IN  Struct([Domains |-> <<data.domain_name.v>>,
                DurationInYears |-> Uint32(data.duration_in_years.v),
                ProjectID |-> data.project_id.v,
                OwnerContactID |-> owner.ID,
                OwnerContact |-> owner.Contact,
                AdministrativeContactID |-> admin.ID,
                AdministrativeContact |-> admin.Contact,
                TechnicalContactID |-> tech.ID,
                TechnicalContact |-> tech.Contact],
               {"OwnerContact", "AdministrativeContact", "TechnicalContact"})

\* d.SetId(resp.ProjectID + "/" + domainName)
MintID_domainFirst(projectID, domainName) == domainName \o <<Slash>> \o projectID

MintID(projectID, domainName) == projectID \o <<Slash>> \o domainName

\* A Create that tries BuyDomains a second time when it fails.
resourceOrderDomainCreate_retries(data, id, buyResp, getResp) ==
    LET request == BuyDomainsRequest(data)
        buy     == [op |-> "BuyDomains", req |-> request, resp |-> buyResp]
        newID   == MintID(buyResp.ProjectID, data.domain_name.v)
        setID   == [op |-> "SetId", id |-> newID]
        read    == resourceOrderDomainsRead(data, newID, getResp, <<buy, setID>>)
    IN  IF request = Panic
        THEN [d |-> data, rid |-> id, calls |-> <<>>, diags |-> Panic]
        ELSE IF buyResp.isErr
        THEN [d |-> data, rid |-> id, calls |-> <<buy, buy>>, diags |-> buyResp]
        ELSE IF read.diags = Panic
        THEN [d |-> data, rid |-> id, calls |-> read.calls, diags |-> Panic]
        ELSE read

resourceOrderDomainCreate(data, id, buyResp, getResp) ==
    LET request == BuyDomainsRequest(data)
        buy     == [op |-> "BuyDomains", req |-> request, resp |-> buyResp]
        newID   == MintID(buyResp.ProjectID, data.domain_name.v)
        setID   == [op |-> "SetId", id |-> newID]
        read    == resourceOrderDomainsRead(data, newID, getResp, <<buy, setID>>)
    IN  IF request = Panic
        THEN [d |-> data, rid |-> id, calls |-> <<>>, diags |-> Panic]
        ELSE IF buyResp.isErr
        THEN [d |-> data, rid |-> id, calls |-> <<buy>>, diags |-> buyResp]
        ELSE IF read.diags = Panic
        THEN [d |-> data, rid |-> id, calls |-> read.calls, diags |-> Panic]
        ELSE read

----------------------------------------------------------------------------
(* The resource's life: Create, Read and import, against a registrar whose *)
(* answers are inputs                                                      *)

MaxYears == 2
MaxImportLen == 2

\* Every attribute of the schema at its zero value.
ZeroData ==
       ("domain_name" :> Str(<<>>)) @@ ("duration_in_years" :> IntOf(0))
    @@ ("project_id" :> Str(<<>>))
    @@ ("owner_contact_id" :> Str("")) @@ ("owner_contact" :> MapOf(EmptyMap))
    @@ ("administrative_contact_id" :> Str(""))
    @@ ("administrative_contact" :> MapOf(EmptyMap))
    @@ ("technical_contact_id" :> Str("")) @@ ("technical_contact" :> MapOf(EmptyMap))
    @@ ("organization_id" :> Str("")) @@ ("auto_renew_status" :> Str(""))
    @@ ("expired_at" :> Str("")) @@ ("updated_at" :> Str("")) @@ ("registrar" :> Str(""))
    @@ ("is_external" :> Bool(FALSE)) @@ ("status" :> Str(""))
    @@ ("pending_trade" :> Bool(FALSE)) @@ ("dnssec_status" :> Str(""))
    @@ ("epp_code" :> NilList) @@ ("tld" :> NilMap)
    @@ ("transfer_registration_status" :> NilMap)
    @@ ("external_domain_registration_status" :> NilMap)
    @@ ("linked_products" :> NilList) @@ ("dns_zones" :> NilList)

\* The resource data Create receives: the configuration, nothing computed.
ConfigData(cfg) == [key \in DOMAIN ZeroData |->
                        IF key \in DOMAIN cfg THEN cfg[key] ELSE ZeroData[key]]

DomainNames == {<<"a">>, <<"a", "/", "a">>}
ProjectIDs  == {<<"p">>, <<"p", "/", "p">>}

FullContactMap == MapOf(AllRequired @@ ("fax_number" :> Str("")))
RoleIDs  == {Str(""), Str("contact-9")}
RoleMaps == {MapOf(EmptyMap), FullContactMap}
\* Inline owner contacts: also one without "city" and one whose
\* extension_fr is the empty map.
OwnerMaps ==
    RoleMaps \cup {MapOf([k \in RequiredKeys \ {"city"} |-> AllRequired[k]]),
                   MapOf(AllRequired @@ ("extension_fr" :> MapOf(EmptyMap)))}

Configs ==
    [domain_name : {Str(n) : n \in DomainNames},
     duration_in_years : {IntOf(y) : y \in 1..MaxYears},
     project_id : {Str(<<"p">>)},
     owner_contact_id : RoleIDs, owner_contact : OwnerMaps,
     administrative_contact_id : RoleIDs, administrative_contact : RoleMaps,
     technical_contact_id : RoleIDs, technical_contact : RoleMaps]

\* The configurations of the runs that exercise Read.
OwnerByIDConfigs ==
    {cfg \in Configs : /\ cfg.duration_in_years = IntOf(1)
                       /\ cfg.owner_contact_id = Str("contact-9")
                       /\ cfg.owner_contact = MapOf(EmptyMap)
                       /\ cfg.administrative_contact_id = Str("")
                       /\ cfg.administrative_contact = MapOf(EmptyMap)
                       /\ cfg.technical_contact_id = Str("")
                       /\ cfg.technical_contact = MapOf(EmptyMap)}

BuyResponses == {RegistrarError} \cup [isErr : {FALSE}, ProjectID : ProjectIDs]

T0 == [sec |-> 0, nsec |-> 0]

Contact0 ==
    CHOOSE c \in Contacts : /\ c.CompanyName = "" /\ c.ExtensionFr = NilPtr
                            /\ c.ExtensionEu = NilPtr /\ c.ExtensionNl = NilPtr

\* A contact whose FR association info has no publication date.
ContactNoPublicationJo ==
    [Contact0 EXCEPT !.ExtensionFr =
        [Mode |-> "association", IndividualInfo |-> NilPtr, DunsInfo |-> NilPtr,
         AssociationInfo |-> [PublicationJo |-> NilPtr, PublicationJoPage |-> 7],
         TrademarkInfo |-> NilPtr, CodeAuthAfnicInfo |-> NilPtr]]

Money0 == [CurrencyCode |-> "EUR", Units |-> 9, Nanos |-> 990000000]
TldOffer(price) == [Action |-> "create", OperationPath |-> "/domains", Price |-> price]
Tld(offers) ==
    [Name |-> "com", DnssecSupport |-> TRUE, DurationInYearsMin |-> 1,
     DurationInYearsMax |-> 10, IDnSupport |-> FALSE, Offers |-> offers,
     Specifications |-> [t |-> "stringmap", v |-> ("grace" :> "30")]]
DNSZone(updatedAt) ==
    [Domain |-> "a", Subdomain |-> "", Ns |-> <<"ns0.dom.scw.cloud">>,
     NsDefault |-> <<"ns0.dom.scw.cloud">>, NsMaster |-> <<>>, Status |-> "active",
     Message |-> NilPtr, UpdatedAt |-> updatedAt, ProjectID |-> "p"]

\* Records whose every timestamp, offer and price is present; the DNSSEC,
\* TLD, transfer and external-registration substructures are optional.
CompleteRecords ==
    [Domain : {<<>>}, OrganizationID : {"org-1"}, ProjectID : {<<"p">>},
     AutoRenewStatus : {"enabled"}, ExpiredAt : {T0}, UpdatedAt : {T0},
     Registrar : {"scw"}, IsExternal : {FALSE}, Status : {"active"},
     PendingTrade : {FALSE}, EppCode : {<<"epp-1">>}, LinkedProducts : {<<>>},
     OwnerContact : {Contact0},
     TechnicalContact : {NilPtr}, AdministrativeContact : {NilPtr},
     Dnssec : OptionalPtr({[Status |-> "enabled"]}),
     Tld : OptionalPtr({Tld(MapOf("create" :> TldOffer(Money0)))}),
     TransferRegistrationStatus :
        OptionalPtr({[Status |-> "pending", VoteCurrentOwner |-> TRUE,
                      VoteNewOwner |-> FALSE]}),
     ExternalDomainRegistrationStatus : OptionalPtr({[ValidationToken |-> "token-1"]}),
     DNSZones : {ListOf(<<DNSZone(T0)>>)}]

FullRecord ==
    CHOOSE r \in CompleteRecords :
        /\ r.Dnssec # NilPtr /\ r.Tld # NilPtr
        /\ r.TransferRegistrationStatus # NilPtr
        /\ r.ExternalDomainRegistrationStatus # NilPtr

\* A record with no contact, no zone and no optional substructure.
BareRecord ==
    [(CHOOSE r \in CompleteRecords :
        /\ r.Dnssec = NilPtr /\ r.Tld = NilPtr
        /\ r.TransferRegistrationStatus = NilPtr
        /\ r.ExternalDomainRegistrationStatus = NilPtr)
     EXCEPT !.OwnerContact = NilPtr, !.DNSZones = NilList]

\* Records in which one optional timestamp, offer or price is absent.
PartialRecords ==
    UNION {{[r EXCEPT !.ExpiredAt = NilPtr],
            [r EXCEPT !.UpdatedAt = NilPtr],
            [r EXCEPT !.OwnerContact = ContactNoPublicationJo],
            [r EXCEPT !.Tld = Tld(MapOf("create" :> TldOffer(NilPtr)))],
            [r EXCEPT !.Tld = Tld(MapOf("create" :> NilPtr))],
            [r EXCEPT !.DNSZones = ListOf(<<DNSZone(NilPtr)>>)]} :
           r \in {FullRecord, BareRecord}}

GetResponses  == {RegistrarError, BareRecord} \cup CompleteRecords \cup PartialRecords
SomeResponses == {RegistrarError, FullRecord, BareRecord}

\* The host holds one configuration of the resource; nothing is created yet.
InitWith(configs) ==
    /\ config \in configs
    /\ handler = "none"
    /\ d = ZeroData
    /\ rid = <<>>
    /\ calls = <<>>
    /\ diags = NoError
    /\ IdleCodec /\ IdlePlan /\ IdleFlatten /\ IdleExpand /\ IdleLookup

Handled(name, out) ==
    /\ handler' = name
    /\ d' = out.d
    /\ rid' = out.rid
    /\ calls' = out.calls
    /\ diags' = out.diags
    /\ UNCHANGED <<codecVars, planVars, flattenVars, expandVars, lookupVars>>

\* The host creates the resource from its configuration (no resource yet).
Create(buyResp, getResp) ==
    /\ rid = <<>>
    /\ UNCHANGED config
    /\ Handled("Create", resourceOrderDomainCreate(ConfigData(config), rid, buyResp, getResp))

\* The host refreshes an existing resource.
Read(getResp) ==
    /\ rid # <<>>
    /\ UNCHANGED config
    /\ Handled("Read", resourceOrderDomainsRead(d, rid, getResp, <<>>))

\* schema.ImportStatePassthroughContext: the ID is whatever the user typed.
Import(id) ==
    /\ rid = <<>>
    /\ id # <<>>
    /\ UNCHANGED config
    /\ Handled("Import", [d |-> ZeroData, rid |-> id, calls |-> <<>>, diags |-> NoError])

Init == InitWith(OwnerByIDConfigs)

Next ==
    \/ \E buyResp \in BuyResponses, getResp \in GetResponses : Create(buyResp, getResp)
    \/ \E getResp \in GetResponses : Read(getResp)
    \/ \E id \in StringsUpTo(MaxImportLen) : Import(id)

Spec == Init /\ [][Next]_vars

CreateInit == InitWith(Configs)

CreateNext ==
    \/ \E buyResp \in BuyResponses, getResp \in SomeResponses : Create(buyResp, getResp)
    \/ \E getResp \in SomeResponses : Read(getResp)

SpecCreate == CreateInit /\ [][CreateNext]_vars

----------------------------------------------------------------------------
(* Properties of Create and Read *)

HasSlash(str) == \E i \in 1..Len(str) : str[i] = Slash

\* The BuyDomains request of the last handler, when it built one.
RequestBuilt == handler = "Create" /\ Len(calls) >= 1 /\ calls[1].op = "BuyDomains"

\* What the precedence rule asks of one role of a request.
RoleFollowsPrecedence(requestID, requestContact, idKey, mapKey) ==
    /\ ~(requestID # NilPtr /\ requestContact # NilPtr)
    /\ IF config[idKey].v # ""
       THEN requestID = [val |-> config[idKey].v] /\ requestContact = NilPtr
       ELSE IF DOMAIN config[mapKey].v # {}
       THEN requestID = NilPtr /\ requestContact = ExpandNewContact(config[mapKey])
       ELSE requestID = NilPtr /\ requestContact = NilPtr

\* C2: in every BuyDomains request Create builds, each of the three roles
\* independently carries the contact ID when the ID string is non-empty,
\* else the New-Contact expansion of a non-empty inline map, else neither;
\* never both; and Domains is [domain_name] with DurationInYears and
\* ProjectID taken from the configuration.
C2_RequestFollowsPrecedence ==
    RequestBuilt =>
        LET req == calls[1].req
        IN  /\ RoleFollowsPrecedence(req.OwnerContactID, req.OwnerContact,
                                     "owner_contact_id", "owner_contact")
            /\ RoleFollowsPrecedence(req.AdministrativeContactID, req.AdministrativeContact,
                                     "administrative_contact_id", "administrative_contact")
            /\ RoleFollowsPrecedence(req.TechnicalContactID, req.TechnicalContact,
                                     "technical_contact_id", "technical_contact")
            /\ req.Domains = <<config.domain_name.v>>
            /\ req.DurationInYears = config.duration_in_years.v
            /\ req.ProjectID = config.project_id.v

\* Owner by ID although an inline owner map is configured too, the
\* administrative contact inline, the technical contact omitted.
C2_Witness ==
    /\ RequestBuilt
    /\ config.owner_contact_id.v # "" /\ config.owner_contact = FullContactMap
    /\ calls[1].req.OwnerContactID # NilPtr /\ calls[1].req.OwnerContact = NilPtr
    /\ config.administrative_contact_id.v = ""
    /\ calls[1].req.AdministrativeContact # NilPtr
    /\ calls[1].req.TechnicalContactID = NilPtr /\ calls[1].req.TechnicalContact = NilPtr
    /\ config.duration_in_years.v = MaxYears

\* BuyDomains succeeded in the last Create.
Bought == RequestBuilt /\ ~calls[1].resp.isErr

\* C4: when neither the project ID nor the domain name contains "/", the
\* identifier Create mints is projectID/domainName, decoding it succeeds and
\* the Read that follows queries the registrar for the configured domain.
C4_MintedIDDecodesToDomain ==
    (/\ Bought
     /\ ~HasSlash(calls[1].resp.ProjectID)
     /\ ~HasSlash(config.domain_name.v)) =>
        /\ Len(calls) = 3
        /\ calls[2].op = "SetId"
        /\ calls[2].id = calls[1].resp.ProjectID \o <<"/">> \o config.domain_name.v
        /\ calls[3].op = "GetDomain"
        /\ calls[3].req.Domain = config.domain_name.v

C4_Witness ==
    /\ Bought
    /\ ~HasSlash(calls[1].resp.ProjectID)
    /\ ~HasSlash(config.domain_name.v)
    /\ diags = NoError
    /\ calls[3].req.Domain = <<"a">>
    /\ d.domain_name = Str(<<"a">>)

\* The record the registrar returned to the last handler, when it did.
RecordReturned ==
    /\ handler \in {"Create", "Read"}
    /\ Len(calls) >= 1
    /\ calls[Len(calls)].op = "GetDomain"
    /\ calls[Len(calls)].resp # RegistrarError

LastRecord == calls[Len(calls)].resp

\* The attributes Read writes.
ReadKeys ==
    {"domain_name", "organization_id", "project_id", "auto_renew_status", "expired_at",
     "updated_at", "registrar", "is_external", "status", "pending_trade",
     "owner_contact", "technical_contact", "administrative_contact", "dnssec_status",
     "epp_code", "tld", "transfer_registration_status",
     "external_domain_registration_status", "linked_products", "dns_zones"}

\* C5: after a successful Read every attribute Read manages is determined by
\* the record of that Read alone: the flattened value of what the record
\* carries, and the zero value for a substructure the record lacks (nothing
\* an earlier Read wrote survives).
C5_ReadFullyOverwrites ==
    (RecordReturned /\ diags = NoError) =>
        \A key \in ReadKeys :
            d[key] = IF key \in DOMAIN ReadSets(LastRecord)
                     THEN ReadSets(LastRecord)[key]
                     ELSE ZeroData[key]

\* C8: the flattening Read performs completes for every record the
\* registrar returns, optional timestamps, offers and prices absent included.
C8_FlattenIsTotal ==
    RecordReturned => diags # Panic

\* What the Read of identifier id, entered with the data before and the
\* call log so far, must have done for the handler result after.
DecodedBeforeGetDomain(id, before, sofar, ranAs) ==
    LET decoded == extractDomainFromID(id)
    IN  IF decoded.err.isErr
        THEN /\ diags' = decoded.err
             /\ calls' = sofar
             /\ d' = before
             /\ rid' = id
        ELSE /\ Len(calls') = Len(sofar) + 1
             /\ SubSeq(calls', 1, Len(sofar)) = sofar
             /\ calls'[Len(calls')].op = "GetDomain"
             /\ calls'[Len(calls')].req = [Domain |-> decoded.domain]
             /\ handler' = ranAs

\* C14: in every Read (the host's, and the one that ends a Create) the
\* identifier is decoded before any registrar call: when decoding fails the
\* Read returns the invalid-identifier error, GetDomain is not invoked and
\* no attribute is written; GetDomain is invoked only after a successful
\* decode, once, and with exactly the decoded domain name.
C14_DecodeBeforeGetDomain ==
    [][/\ handler' = "Read" => DecodedBeforeGetDomain(rid, d, <<>>, "Read")
       /\ (handler' = "Create" /\ Len(calls') >= 2) =>
              DecodedBeforeGetDomain(calls'[2].id, ConfigData(config),
                                     SubSeq(calls', 1, 2), "Create")]_vars

\* A Read of a resource whose stored identifier has three segments: the
\* error names the identifier, the registrar was not asked and the
\* attributes an earlier Create left are still there.
C14_Witness ==
    /\ handler = "Read"
    /\ Len(rid) > 1
    /\ diags = extractDomainFromID(rid).err
    /\ extractDomainFromID(rid).err.isErr
    /\ calls = <<>>
    /\ d # ZeroData

\* The positions of the BuyDomains and GetDomain calls of the last handler.
CallsOf(op) == {i \in 1..Len(calls) : calls[i].op = op}

\* C15: a Create that reaches the registrar invokes BuyDomains exactly once
\* and first; when BuyDomains fails, Create returns that error as it is,
\* makes no further call and leaves the resource ID unset; the ID is minted
\* (SetId) only after BuyDomains succeeded and before any GetDomain.  A
\* Create that never reaches the registrar made no call and set no ID.
C15_BuyOnceThenMintThenRead ==
    handler = "Create" =>
        IF calls = <<>> THEN diags = Panic /\ rid = <<>>
        ELSE /\ CallsOf("BuyDomains") = {1}
             /\ IF calls[1].resp.isErr
                THEN /\ calls = <<calls[1]>>
                     /\ diags = calls[1].resp
                     /\ rid = <<>>
                ELSE /\ CallsOf("SetId") = {2}
                     /\ \A i \in CallsOf("GetDomain") : i > 2
                     /\ (diags # Panic) => rid = calls[2].id
             /\ (rid # <<>>) => ~calls[1].resp.isErr

\* BuyDomains failed: one call, its error returned, no ID, no GetDomain.
C15_Witness ==
    /\ handler = "Create"
    /\ Len(calls) = 1
    /\ calls[1].op = "BuyDomains"
    /\ calls[1].resp = RegistrarError
    /\ diags = RegistrarError
    /\ rid = <<>>
    /\ config.owner_contact # MapOf(EmptyMap)

----------------------------------------------------------------------------
(* Looking a DNS record up by type and data: helpers.go                    *)
(* getRecordFromTypeAndData                                                *)

MaxRecords == 2

RecordTypes == {"A", "MX"}

\* Record data: texts differing in case only, a text that is a prefix of
\* another, and the "{priority} {data}" form the API gives MX records.
DataTexts == {<<"a">>, <<"A">>, <<"a", "b">>, <<"1", " ", "a">>}

\* The *domain.Record values of a zone (non-nil).
Records == [Type : RecordTypes, Data : DataTexts]

RecordLists == UNION {[1..n -> Records] : n \in 0..MaxRecords}

\* strings.ToLower
ToLower(str) == [i \in 1..Len(str) |-> IF str[i] = "A" THEN "a" ELSE str[i]]

\* strings.HasPrefix
HasPrefix(str, prefix) ==
    Len(prefix) <= Len(str) /\ SubSeq(str, 1, Len(prefix)) = prefix

\* flattenDomainData(data, type): the data as the configuration writes it;
\* for an MX record the text after the priority, for the other types of this
\* model the data itself.
flattenDomainData(data, recordType) ==
    LET spaces == {i \in 1..Len(data) : data[i] = " "}
    IN  IF recordType = "MX" /\ spaces # {}
        THEN SubSeq(data, (CHOOSE i \in spaces : \A j \in spaces : i <= j) + 1, Len(data))
        ELSE data

\* The condition of the loop body for record r.
recordMatches(dnsType, data, r) ==
    LET flattedData        == flattenDomainData(ToLower(r.Data), r.Type)
        flattenCurrentData == flattenDomainData(ToLower(data), r.Type)
    IN  HasPrefix(flattedData, flattenCurrentData) /\ r.Type = dnsType

\* The for loop from record i on: it returns from the function on a match
\* while currentRecord is set, and breaks on a match otherwise.
RECURSIVE recordsLoop(_, _, _, _, _)
recordsLoop(dnsType, data, records, i, currentRecord) ==
    IF i > Len(records) THEN [returned |-> FALSE, currentRecord |-> currentRecord]
    ELSE IF recordMatches(dnsType, data, records[i])
    THEN IF currentRecord # NilPtr
         THEN [returned |-> TRUE, currentRecord |-> currentRecord]
         ELSE [returned |-> FALSE, currentRecord |-> records[i]]
    ELSE recordsLoop(dnsType, data, records, i + 1, currentRecord)

DuplicateRecordMatch == ErrorsNew("multiple records found with same type and data")
RecordNotFound(dnsType, data) ==
    Errorf("record with type %s and data %s not found", <<dnsType, data>>)

getRecordFromTypeAndData(dnsType, data, records) ==
    LET loop == recordsLoop(dnsType, data, records, 1, NilPtr)
    IN  IF loop.returned THEN [record |-> NilPtr, err |-> DuplicateRecordMatch]
        ELSE IF loop.currentRecord = NilPtr
        THEN [record |-> NilPtr, err |-> RecordNotFound(dnsType, data)]
        ELSE [record |-> loop.currentRecord, err |-> NoError]

LookupInit ==
    /\ lookupIn \in [dnsType : RecordTypes, data : DataTexts, records : RecordLists]
    /\ lookupOut = NotRun
    /\ IdleCodec /\ IdlePlan /\ IdleLife /\ IdleFlatten /\ IdleExpand

Lookup ==
    /\ lookupOut = NotRun
    /\ lookupOut' = getRecordFromTypeAndData(lookupIn.dnsType, lookupIn.data, lookupIn.records)
    /\ UNCHANGED <<lookupIn, codecVars, planVars, lifeVars, flattenVars, expandVars>>

LookupNext == Lookup
SpecLookup == LookupInit /\ [][LookupNext]_vars

\* The positions of the records that match the query.
MatchingRecords ==
    {i \in 1..Len(lookupIn.records) :
        recordMatches(lookupIn.dnsType, lookupIn.data, lookupIn.records[i])}

\* C13: when more than one record of the list matches the type+data query
\* the lookup returns the duplicate-match error and no record, and when no
\* record matches it returns the not-found error.
C13_DuplicateMatchIsSurfaced ==
    lookupOut # NotRun =>
        /\ Cardinality(MatchingRecords) > 1 =>
              lookupOut = [record |-> NilPtr, err |-> DuplicateRecordMatch]
        /\ MatchingRecords = {} =>
              lookupOut = [record |-> NilPtr,
                           err |-> RecordNotFound(lookupIn.dnsType, lookupIn.data)]

\* What the lookup does: the first matching record when there is one, and
\* the not-found error otherwise; the duplicate-match error is never returned.
C13_FirstMatchIsReturned ==
    lookupOut # NotRun =>
        /\ lookupOut.err # DuplicateRecordMatch
        /\ MatchingRecords # {} =>
              lookupOut =
                [record |-> lookupIn.records[CHOOSE i \in MatchingRecords :
                                                \A j \in MatchingRecords : i <= j],
                 err |-> NoError]
        /\ MatchingRecords = {} =>
              lookupOut = [record |-> NilPtr,
                           err |-> RecordNotFound(lookupIn.dnsType, lookupIn.data)]

====
